---- MODULE Spec2Model ----
(***************************************************************************)
(* A model of the agent iteration loop of tyler (Agent.go and the methods  *)
(* it calls), of the callers that start turns, of the Thread object        *)
(* (messages, timestamps, reactions) and of the storage backends.          *)
(*                                                                         *)
(* A turn is one invocation of Agent.go.  asyncio runs the code between    *)
(* two awaits without interruption, so every action below is the code from *)
(* one suspension point (the LLM call, a tool execution, a store save) to  *)
(* the next.  The agent's _iteration_count is a field of the Agent         *)
(* instance and is shared by all turns of that agent.                      *)
(***************************************************************************)
EXTENDS Integers, Sequences, FiniteSets, TLC

\* ------------------------------------------------------------------------
\* Bounds of the model
\* ------------------------------------------------------------------------

\* largest value of max_tool_iterations that is explored
MaxCap == 2

\* largest number of tool calls in one LLM response
MaxCalls == 2

\* largest number of LLM calls one turn is followed for
MaxLLMCalls == 4

\* largest number of messages of the thread object the callers build
MaxMessages == 3

\* latest time the clock is followed to
MaxClock == 1
MaxNewMessages == 3
MaxChunks == 3
\* DEFAULT_MAX_FILE_SIZE, bytes
DefaultMaxFileSize == 2

\* the largest max_storage_size callers configure, bytes
MaxStorage == 3

\* the largest content callers save, bytes
MaxContent == 3

\* the number of files callers save to one file store
MaxFiles == 3

\* the size of the bytes an attachment holds
AttachmentSize == 1

MaxAttachments == 2

\* the turns (invocations of go) of the one agent: turn 1 is the only one
\* that runs when the caller serializes the turns
Turns == {1, 2}

SerialTurns == {1}

\* ------------------------------------------------------------------------
\* Values
\* ------------------------------------------------------------------------

CapContent == "Maximum tool iteration count reached. Stopping further tool calls."

ErrorPrefixContent == "I encountered an error: Completion API error"

InvalidResponseContent == "I encountered an error: Failed to get valid response"

ToolErrorContent == "Error executing tool: Tool error"

ToolResultContent == "tool result"

\* the tools registered with the tool runner
ToolNames == {"get_weather", "failing_tool", "interrupt_tool"}

\* tool call ids as the provider sends them: 0 is the empty string,
\* i > 0 is the id "call_i"
EmptyId == 0

NoToolCalls == <<>>

NoId == -1

\* a Message (the fields the loop reads or writes)
Msg(role, content, tool_calls, tool_call_id, name, metrics) ==
    [role |-> role, content |-> content, tool_calls |-> tool_calls,
     tool_call_id |-> tool_call_id, name |-> name, metrics |-> metrics,
     sequence |-> -1]

SystemMessage == Msg("system", "system prompt", NoToolCalls, NoId, "", "none")

UserMessage == Msg("user", "task", NoToolCalls, NoId, "", "none")

CapMessage == Msg("assistant", CapContent, NoToolCalls, NoId, "", "none")

\* ------------------------------------------------------------------------
\* Thread
\* ------------------------------------------------------------------------

RECURSIVE MaxSequence(_)
\* max((m.sequence for m in self.messages if m.role != "system"), default=0)
MaxSequence(msgs) ==
    IF msgs = <<>> THEN 0
    ELSE LET rest == MaxSequence(Tail(msgs))
             m == Head(msgs)
         IN IF m.role # "system" /\ m.sequence > rest THEN m.sequence ELSE rest

\* a variant of Sequenced: the sequence is the number of messages so far
MutSequenced(msgs, m) ==
    IF m.role = "system" THEN [m EXCEPT !.sequence = 0]
    ELSE [m EXCEPT !.sequence = Len(msgs)]

\* the message as add_message stores it (its sequence is assigned)
Sequenced(msgs, m) ==
    IF m.role = "system" THEN [m EXCEPT !.sequence = 0]
    ELSE [m EXCEPT !.sequence = MaxSequence(msgs) + 1]

\* a variant of AddMessage: every message is appended
MutAddMessage(msgs, m) == Append(msgs, Sequenced(msgs, m))

\* Thread.add_message
AddMessage(msgs, m) ==
    IF m.role = "system" THEN <<Sequenced(msgs, m)>> \o msgs
    ELSE Append(msgs, Sequenced(msgs, m))

\* Thread.ensure_system_prompt: the prompt is put at the head unless a system
\* message is already there
EnsureSystemPrompt(msgs) ==
    IF msgs # <<>> /\ msgs[1].role = "system" THEN msgs
    ELSE AddMessage(msgs, SystemMessage)

\* the thread a caller hands to go: a fresh thread with the user's message
\* (AgentRunner.run_agent builds it this way)
FreshThread == AddMessage(<<>>, UserMessage)

\* Message.to_chat_completion_message (of a message without attachments):
\* name, tool_calls and tool_call_id are present only when they are set
ToChatCompletionMessage(m) ==
    [role |-> m.role, content |-> m.content, sequence |-> m.sequence,
     name |-> m.name,
     tool_calls |-> IF m.role = "assistant" THEN m.tool_calls ELSE NoToolCalls,
     tool_call_id |-> IF m.role = "tool" /\ m.tool_call_id # EmptyId
                      THEN m.tool_call_id ELSE NoId]

IsNotSystem(m) == m.role # "system"

IsSystem(m) == m.role = "system"

\* the messages get_messages_for_chat_completion walks over
MutChatCompletionSource(msgs) == msgs

ChatCompletionSource(msgs) == SelectSeq(msgs, IsNotSystem)

\* Thread.get_messages_for_chat_completion
GetMessagesForChatCompletion(msgs) ==
    [i \in 1..Len(ChatCompletionSource(msgs)) |->
        ToChatCompletionMessage(ChatCompletionSource(msgs)[i])]

\* ------------------------------------------------------------------------
\* Tool runner
\* ------------------------------------------------------------------------

\* tool_runner.get_tool_attributes(name).get('type')
ToolAttributeType(name) ==
    IF name = "interrupt_tool" THEN "interrupt" ELSE "none"

\* the content of the result of _handle_tool_execution, or of the except
\* branch of _process_tool_call when the execution raises
ToolContent(name) ==
    IF name = "failing_tool" THEN ToolErrorContent ELSE ToolResultContent

\* ------------------------------------------------------------------------
\* LLM responses
\* ------------------------------------------------------------------------

\* the tool calls of a response with n calls: the provider gives the call at
\* position i the id "call_i", or it sends no ids and every id is empty
ToolCallsOfLen(n) ==
    {tcs \in [1..n -> [id : {EmptyId} \cup (1..MaxCalls), name : ToolNames]] :
        \/ \A i \in 1..n : tcs[i].id = i
        \/ \A i \in 1..n : tcs[i].id = EmptyId}

ToolCallLists == UNION {ToolCallsOfLen(n) : n \in 0..MaxCalls}

\* the responses of the LLM: a final answer with or without text, or tool
\* calls without text (the loop reads the text of a response with tool
\* calls only in `content or has_tool_calls`)
Responses ==
    {r \in [content : {"", "text"}, tool_calls : ToolCallLists] :
        r.tool_calls # <<>> => r.content = ""}

\* the responses with at most one tool call
ShortResponses == {r \in Responses : Len(r.tool_calls) <= 1}

\* the responses followed when turns overlap: a final answer, or one call of
\* a tool that is not an interrupt tool
OverlapResponses ==
    {[content |-> "text", tool_calls |-> <<>>],
     [content |-> "", tool_calls |-> <<[id |-> 1, name |-> "get_weather"]>>]}

\* ------------------------------------------------------------------------
\* State
\* ------------------------------------------------------------------------

VARIABLES
    max_tool_iterations,  \* Agent.max_tool_iterations
    thread_store,         \* whether Agent.thread_store is set
    iteration_count,      \* Agent._iteration_count
    pc,                   \* per turn: where go is suspended
    thread,               \* per turn: the messages of the working thread
    new_messages,         \* per turn: the new_messages accumulator
    tool_calls,           \* per turn: tool_calls of the response in process
    tool_idx,             \* per turn: position of the tool call in process
    llm_calls,            \* per turn: calls of step so far
    tool_execs,           \* per turn: tool executions started so far
    start_count,          \* per turn: _iteration_count when go was entered
    exc,                  \* per turn: the exception that left go
    saved,                \* per turn: the thread as the store last saved it
    clock,                \* the time datetime.now(UTC) returns
    messages,             \* Thread.messages of the thread object the callers use
    created_at,           \* Thread.created_at
    updated_at,           \* Thread.updated_at
    last,                 \* the last call on the thread or a backend, its result
    sql_store,            \* SQLBackend: the ThreadRecord of the thread
    mem_store,            \* MemoryBackend: whether _threads holds the thread
    meta,                 \* Thread.title, Thread.attributes, Thread.platforms
    attachments,          \* the attachments of the messages, in thread order
    files,                \* the file store: the ids of the files it holds
    file_store,           \* FileStore: its limits, the sizes of its files
    saving,               \* SQLBackend.save: where a call in progress is
    runner,               \* AgentRunner.run_agent: the call and where it is
    stream,               \* _process_streaming_chunks: the chunks, the result
    projection            \* to_chat_completion_message: the message, the result

\* the thread object and the storage backends
file_vars == <<attachments, files, file_store, saving>>

\* what the agent leaves alone: its actions record in last the response
\* step returned, or no call
store_vars == <<clock, messages, created_at, updated_at, sql_store,
                mem_store, meta, file_vars>>

thread_vars == <<last, store_vars>>

\* the calls of the agent runner, of the chunk processor and of the
\* projection of a message
call_vars == <<runner, stream, projection>>

vars == <<max_tool_iterations, thread_store, iteration_count, pc, thread,
          new_messages, tool_calls, tool_idx, llm_calls, tool_execs,
          start_count, exc, saved, thread_vars, call_vars>>

agent_config == <<max_tool_iterations, thread_store>>

\* the variables of the agent and of its turns
agent_vars == <<agent_config, iteration_count, pc, thread, new_messages,
                tool_calls, tool_idx, llm_calls, tool_execs, start_count,
                exc, saved>>

\* Thread.title, Thread.attributes and Thread.platforms of a new Thread
DefaultMeta ==
    [title |-> "Untitled Thread", attributes |-> "dict", platforms |-> "dict"]

\* the titles, attributes and platforms callers give a thread: attributes
\* are an empty dict, a dict that holds a list or a dict that holds a tuple
Metas ==
    [title : {"Untitled Thread", "Example Thread"},
     attributes : {"dict", "list", "tuple"},
     platforms : {"dict", "slack"}]

NoMeta == [title |-> "none", attributes |-> "none", platforms |-> "none"]

\* an exception: its type and its text
Error(type, text) == [type |-> type, text |-> text]

NoError == Error("none", "none")

\* a call and what it returned: result is the Boolean a reaction call
\* returns or whether get found the thread, got the messages of the thread
\* get returned or the list get_messages_for_chat_completion returned
\* meta is the title, attributes and platforms of the thread get returned,
\* raised the exception that left the call
Call(op, arg, result, got) ==
    [op |-> op, arg |-> arg, result |-> result, got |-> got,
     meta |-> NoMeta, raised |-> NoError]

NoCall == Call("none", "none", FALSE, <<>>)

\* the state of the SQL backend that holds no ThreadRecord of the thread
NoRecord ==
    [exists |-> FALSE, created_at |-> 0, updated_at |-> 0, messages |-> <<>>,
     title |-> "none", attributes |-> "none", file_ids |-> {}]

\* run_agent has not been called
NoRun ==
    [pc |-> "idle", name |-> "none", task |-> "none", context |-> "None",
     thread |-> <<>>, go_calls |-> 0, new_messages |-> <<>>,
     response |-> "none", raised |-> "none"]

\* _process_streaming_chunks has been called and no chunk has arrived
NoStream == [chunks |-> <<>>, content |-> <<>>, tool_calls |-> <<>>]

\* None, where the model holds an integer
None == -1

\* FileStore(max_file_size=max_file_size, max_storage_size=max_storage_size)
\* that holds no file: a max_file_size of None or 0 is the default one;
\* next_id stands for the uuid4 save draws, never one drawn before
FileStore(max_file_size, max_storage_size) ==
    [max_file_size |-> IF max_file_size \in {None, 0}
                       THEN DefaultMaxFileSize ELSE max_file_size,
     max_storage_size |-> max_storage_size,
     sizes |-> <<>>,
     next_id |-> 1]

\* no call of SQLBackend.save is in progress
NoSave == "idle"

\* to_chat_completion_message has not been called
NoProjection == [called |-> FALSE]

\* a thread that has just been constructed and no backend that holds it:
\* created_at and updated_at are two reads of the clock, in this order
NewThread ==
    /\ clock \in 0..1
    /\ created_at = 0
    /\ updated_at = clock
    /\ messages = <<>>
    /\ last = NoCall
    /\ sql_store = NoRecord
    /\ mem_store = FALSE
    /\ meta \in Metas
    /\ attachments = <<>>
    /\ files = {}
    /\ file_store \in {FileStore(f, m) : f \in {None} \cup 0..DefaultMaxFileSize,
                                          m \in {None} \cup 0..MaxStorage}
    /\ saving = NoSave
    /\ runner = NoRun
    /\ stream = NoStream
    /\ projection = NoProjection

Active(t) == pc[t] \in {"step", "tool", "save", "cap_save"}

\* an agent that has been constructed and has run no turn
AgentInit ==
    /\ max_tool_iterations \in 0..MaxCap
    /\ thread_store \in BOOLEAN
    /\ iteration_count = 0
    /\ pc = [t \in Turns |-> "idle"]
    /\ thread = [t \in Turns |-> <<>>]
    /\ new_messages = [t \in Turns |-> <<>>]
    /\ tool_calls = [t \in Turns |-> <<>>]
    /\ tool_idx = [t \in Turns |-> 0]
    /\ llm_calls = [t \in Turns |-> 0]
    /\ tool_execs = [t \in Turns |-> 0]
    /\ start_count = [t \in Turns |-> 0]
    /\ exc = [t \in Turns |-> "none"]
    /\ saved = [t \in Turns |-> <<>>]

Init ==
    /\ AgentInit
    /\ NewThread /\ clock = 0 /\ meta = DefaultMeta
    /\ file_store = FileStore(None, None)

\* ------------------------------------------------------------------------
\* Agent.go
\* ------------------------------------------------------------------------

\* a variant of CapReached: the comparison is strict
MutCapReached(count) == count > max_tool_iterations

\* if self._iteration_count >= self.max_tool_iterations (after the loop)
CapReached(count) == count >= max_tool_iterations

\* if self._iteration_count >= self.max_tool_iterations (on entry)
CapOnEntry(count) == count >= max_tool_iterations

\* self._iteration_count = 0
ResetCount == 0

\* a variant of LoopCondition: the loop runs once more
MutLoopCondition(count) == count <= max_tool_iterations

\* while self._iteration_count < self.max_tool_iterations
LoopCondition(count) == count < max_tool_iterations

\* a variant of CapNewMessages: the cap message is not appended
MutCapNewMessages(msgs, news) == news

\* new_messages after _handle_max_iterations has appended the cap message
CapNewMessages(msgs, news) == Append(news, Sequenced(msgs, CapMessage))

\* the code after the main loop: the cap message, the reset, the final save
AfterLoop(t, count, msgs, news) ==
    LET capped == CapReached(count)
        msgs2 == IF capped THEN AddMessage(msgs, CapMessage) ELSE msgs
        news2 == IF capped THEN Append(news, Sequenced(msgs, CapMessage)) ELSE news
    IN /\ thread' = [thread EXCEPT ![t] = msgs2]
       /\ new_messages' = [new_messages EXCEPT ![t] = news2]
       /\ iteration_count' = ResetCount
       /\ tool_calls' = [tool_calls EXCEPT ![t] = <<>>]
       /\ tool_idx' = [tool_idx EXCEPT ![t] = 0]
       /\ pc' = [pc EXCEPT ![t] = IF thread_store THEN "save" ELSE "returned"]

\* a variant of HandleMaxIterations: it returns without the save
MutHandleMaxIterations(t, msgs, news) ==
    /\ thread' = [thread EXCEPT ![t] = AddMessage(msgs, CapMessage)]
    /\ new_messages' = [new_messages EXCEPT ![t] = CapNewMessages(msgs, news)]
    /\ pc' = [pc EXCEPT ![t] = "returned"]

\* Agent._handle_max_iterations up to its save
HandleMaxIterations(t, msgs, news) ==
    /\ thread' = [thread EXCEPT ![t] = AddMessage(msgs, CapMessage)]
    /\ new_messages' = [new_messages EXCEPT ![t] = CapNewMessages(msgs, news)]
    /\ pc' = [pc EXCEPT ![t] = IF thread_store THEN "cap_save" ELSE "returned"]

\* go is called: from its entry to the first await
GoEnter(t) ==
    /\ pc[t] \in {"idle", "returned", "raised"}
    /\ LET msgs == EnsureSystemPrompt(FreshThread)
       IN /\ start_count' = [start_count EXCEPT ![t] = iteration_count]
          /\ exc' = [exc EXCEPT ![t] = "none"]
          /\ saved' = [saved EXCEPT ![t] = <<>>]
          /\ tool_execs' = [tool_execs EXCEPT ![t] = 0]
          /\ IF CapOnEntry(iteration_count)
             THEN /\ HandleMaxIterations(t, msgs, <<>>)
                  /\ llm_calls' = [llm_calls EXCEPT ![t] = 0]
                  /\ tool_calls' = [tool_calls EXCEPT ![t] = <<>>]
                  /\ tool_idx' = [tool_idx EXCEPT ![t] = 0]
                  /\ UNCHANGED iteration_count
             ELSE IF LoopCondition(iteration_count)
             THEN /\ thread' = [thread EXCEPT ![t] = msgs]
                  /\ new_messages' = [new_messages EXCEPT ![t] = <<>>]
                  /\ llm_calls' = [llm_calls EXCEPT ![t] = 1]
                  /\ tool_calls' = [tool_calls EXCEPT ![t] = <<>>]
                  /\ tool_idx' = [tool_idx EXCEPT ![t] = 0]
                  /\ pc' = [pc EXCEPT ![t] = "step"]
                  /\ UNCHANGED iteration_count
             ELSE /\ AfterLoop(t, iteration_count, msgs, <<>>)
                  /\ llm_calls' = [llm_calls EXCEPT ![t] = 0]
    /\ last' = NoCall /\ UNCHANGED <<agent_config, store_vars, call_vars>>

\* has_tool_calls = tool_calls is not None and len(tool_calls) > 0
HasToolCalls(resp) == Len(resp.tool_calls) > 0

\* the assistant message built from a response
AssistantMessage(resp) ==
    Msg("assistant", resp.content,
        IF HasToolCalls(resp) THEN resp.tool_calls ELSE NoToolCalls,
        NoId, "", "usage")

\* a variant of EmitsAssistant: a response without content gives no message
MutEmitsAssistant(resp) == resp.content # ""

\* if content or has_tool_calls
EmitsAssistant(resp) == resp.content # "" \/ HasToolCalls(resp)

\* the tool message _process_tool_call builds for a tool call
ToolMessage(tc) ==
    Msg("tool", ToolContent(tc.name), NoToolCalls, tc.id, tc.name, "timing")

\* a variant of ValidToolMessage: no validation
MutValidToolMessage(m) == TRUE

\* Message.validate_tool_message: a tool message needs a tool_call_id
ValidToolMessage(m) == ~(m.role = "tool" /\ m.tool_call_id = EmptyId)

\* a variant of IsInterrupt: the interrupt attribute is ignored
MutIsInterrupt(name) == FALSE

\* _process_tool_call returns True for an interrupt tool
IsInterrupt(name) == ToolAttributeType(name) = "interrupt"

\* a variant of CurrentToolCall: the calls are taken last to first
MutCurrentToolCall(calls, idx) == calls[Len(calls) + 1 - idx]

\* for tool_call in tool_calls: the tool call the loop is at in its round idx
CurrentToolCall(calls, idx) == calls[idx]

\* completion_params["messages"] of the request step sends for the turn
\* that waits for the LLM (the thread does not change while it waits)
CompletionRequest(t) == GetMessagesForChatCompletion(thread[t])

\* step returns a response: the code up to the next await
StepReturns(t, R) ==
    /\ pc[t] = "step"
    /\ \E resp \in R :
        /\ last' = Call("step", "llm", TRUE, <<resp>>)
        /\ LET msgs == IF EmitsAssistant(resp)
                       THEN AddMessage(thread[t], AssistantMessage(resp))
                       ELSE thread[t]
               news == IF EmitsAssistant(resp)
                       THEN Append(new_messages[t], Sequenced(thread[t], AssistantMessage(resp)))
                       ELSE new_messages[t]
           IN IF ~HasToolCalls(resp)
              THEN /\ AfterLoop(t, iteration_count, msgs, news)
                   /\ UNCHANGED tool_execs
              ELSE /\ thread' = [thread EXCEPT ![t] = msgs]
                   /\ new_messages' = [new_messages EXCEPT ![t] = news]
                   /\ tool_calls' = [tool_calls EXCEPT ![t] = resp.tool_calls]
                   /\ tool_idx' = [tool_idx EXCEPT ![t] = 1]
                   /\ tool_execs' = [tool_execs EXCEPT ![t] = @ + 1]
                   /\ pc' = [pc EXCEPT ![t] = "tool"]
                   /\ UNCHANGED iteration_count
    /\ UNCHANGED <<agent_config, store_vars, call_vars, llm_calls, start_count, exc, saved>>

\* an exception leaves go: nothing is reset, nothing is saved
Raise(t, e) ==
    /\ pc' = [pc EXCEPT ![t] = "raised"]
    /\ exc' = [exc EXCEPT ![t] = e]
    /\ last' = NoCall /\ UNCHANGED <<agent_config, store_vars, call_vars, iteration_count, thread, new_messages,
                   tool_calls, tool_idx, llm_calls, tool_execs, start_count,
                   saved>>

\* step raises (the LLM call failed): go has no handler around it
StepRaises(t) ==
    /\ pc[t] = "step"
    /\ Raise(t, "Completion API error")

\* step returns (None, {}): response.choices raises AttributeError
StepReturnsNone(t) ==
    /\ pc[t] = "step"
    /\ Raise(t, "AttributeError")

\* the number of tool calls of the response in process whose execution has
\* been started while the turn waits for a tool: the for loop awaits
\* _process_tool_call for one call before it starts the next
StartedCalls(t) == tool_idx[t]

\* the try/except around _handle_tool_execution in _process_tool_call:
\* whether an exception of the execution of the tool is caught there
MutToolErrorCaught(name) == name # "failing_tool"

ToolErrorCaught(name) == TRUE

\* the execution of the tool call in process returns or raises: the rest of
\* _process_tool_call and the code of go up to the next await
ToolReturns(t) ==
    /\ pc[t] = "tool"
    /\ LET tc == CurrentToolCall(tool_calls[t], tool_idx[t])
           m == ToolMessage(tc)
           msgs == AddMessage(thread[t], m)
           news == Append(new_messages[t], Sequenced(thread[t], m))
       IN IF ~ToolErrorCaught(tc.name)
          THEN Raise(t, "Tool error")
          ELSE IF ~ValidToolMessage(m)
          THEN Raise(t, "tool_call_id is required for tool messages")
          ELSE /\ last' = NoCall /\ UNCHANGED <<agent_config, store_vars, call_vars, start_count, exc, saved>>
               /\ IF IsInterrupt(tc.name)
                  THEN /\ AfterLoop(t, iteration_count, msgs, news)
                       /\ UNCHANGED <<llm_calls, tool_execs>>
                  ELSE IF tool_idx[t] < Len(tool_calls[t])
                  THEN /\ thread' = [thread EXCEPT ![t] = msgs]
                       /\ new_messages' = [new_messages EXCEPT ![t] = news]
                       /\ tool_idx' = [tool_idx EXCEPT ![t] = @ + 1]
                       /\ tool_execs' = [tool_execs EXCEPT ![t] = @ + 1]
                       /\ UNCHANGED <<iteration_count, pc, tool_calls, llm_calls>>
                  ELSE IF LoopCondition(iteration_count + 1)
                  THEN /\ llm_calls[t] < MaxLLMCalls
                       /\ thread' = [thread EXCEPT ![t] = msgs]
                       /\ new_messages' = [new_messages EXCEPT ![t] = news]
                       /\ iteration_count' = iteration_count + 1
                       /\ tool_calls' = [tool_calls EXCEPT ![t] = <<>>]
                       /\ tool_idx' = [tool_idx EXCEPT ![t] = 0]
                       /\ llm_calls' = [llm_calls EXCEPT ![t] = @ + 1]
                       /\ pc' = [pc EXCEPT ![t] = "step"]
                       /\ UNCHANGED tool_execs
                  ELSE /\ AfterLoop(t, iteration_count + 1, msgs, news)
                       /\ UNCHANGED <<llm_calls, tool_execs>>

\* thread_store.save returns: go (or _handle_max_iterations) returns
SaveReturns(t) ==
    /\ pc[t] \in {"save", "cap_save"}
    /\ saved' = [saved EXCEPT ![t] = thread[t]]
    /\ pc' = [pc EXCEPT ![t] = "returned"]
    /\ last' = NoCall /\ UNCHANGED <<agent_config, store_vars, call_vars, iteration_count, thread, new_messages,
                   tool_calls, tool_idx, llm_calls, tool_execs, start_count,
                   exc>>

\* a variant of IsNotUser: only assistant messages are kept
MutIsNotUser(m) == m.role = "assistant"

\* [m for m in new_messages if m.role != "user"]: what go returns
IsNotUser(m) == m.role # "user"

Returned(t) == SelectSeq(new_messages[t], IsNotUser)

\* the caller sets agent._iteration_count = agent.max_tool_iterations
\* before it calls go (test_go_max_recursion)
SetIterationCount ==
    /\ \A t \in Turns : ~Active(t)
    /\ iteration_count # max_tool_iterations
    /\ iteration_count' = max_tool_iterations
    /\ last' = NoCall /\ UNCHANGED <<agent_config, store_vars, call_vars, pc, thread, new_messages, tool_calls,
                   tool_idx, llm_calls, tool_execs, start_count, exc, saved>>

\* ------------------------------------------------------------------------
\* The thread object: messages, timestamps, reactions
\* ------------------------------------------------------------------------

Roles == {"system", "user", "assistant", "tool"}

\* the roles of the messages the callers react to
ReactedRoles == {"system", "assistant"}

Emojis == {":thumbsup:"}

Users == {"user1"}

NoReactions == [e \in Emojis |-> {}]

\* a message as a caller constructs it before it adds it to the thread: ids
\* are hashes of the fields, taken here to differ from message to message
NewMessage(role, msgs) ==
    Msg(role, "content", NoToolCalls, IF role = "tool" THEN 1 ELSE NoId, "", "none")
        @@ [id |-> Len(msgs) + 1, reactions |-> NoReactions]

\* the ids a caller passes to the reaction calls: those of the messages and
\* one that no message has
MessageIds == 1..(Len(messages) + 1)

\* the clock moves on
Tick ==
    /\ clock < MaxClock
    /\ clock' = clock + 1
    /\ last' = NoCall
    /\ UNCHANGED <<messages, created_at, updated_at, sql_store, mem_store,
                   meta, file_vars,
                   agent_vars, call_vars>>

\* thread.add_message(message)
ThreadAddMessage(role) ==
    /\ Len(messages) < MaxMessages
    /\ messages' = AddMessage(messages, NewMessage(role, messages))
    /\ updated_at' = clock
    /\ last' = Call("add_message", role, FALSE, <<>>)
    /\ UNCHANGED <<clock, created_at, sql_store, mem_store, meta, file_vars,
                   agent_vars, call_vars>>

\* the id Message.__init__ computes when it is given none: the SHA-256 hash
\* of the role, the sequence, the content and the timestamp, which differs
\* exactly when one of the four does
MessageId(role, sequence, content, timestamp) ==
    <<role, sequence, content, timestamp>>

\* thread.add_message(Message(role=role, content=content)): the message is
\* constructed now, so its timestamp is the reading of the clock, and its
\* sequence is None when its id is computed
ThreadAddConstructed(role, content) ==
    /\ Len(messages) < MaxMessages
    /\ messages' = AddMessage(messages,
           Msg(role, content, NoToolCalls, NoId, "", "none")
               @@ [id |-> MessageId(role, None, content, clock),
                   reactions |-> NoReactions])
    /\ updated_at' = clock
    /\ last' = Call("add_message", role, FALSE, <<>>)
    /\ UNCHANGED <<clock, created_at, sql_store, mem_store, meta, file_vars,
                   agent_vars, call_vars>>

\* updated_at after clear_messages
MutClearedUpdatedAt(old, now) == old

ClearedUpdatedAt(old, now) == now

\* thread.clear_messages()
ThreadClearMessages ==
    /\ messages' = <<>>
    /\ updated_at' = ClearedUpdatedAt(updated_at, clock)
    /\ last' = Call("clear_messages", "none", FALSE, <<>>)
    /\ UNCHANGED <<clock, created_at, sql_store, mem_store, meta, file_vars,
                   agent_vars, call_vars>>

\* await thread.get_messages_for_chat_completion()
ThreadGetMessagesForChatCompletion ==
    /\ last' = Call("get_messages_for_chat_completion", "none", FALSE,
                    GetMessagesForChatCompletion(messages))
    /\ UNCHANGED <<clock, messages, created_at, updated_at, sql_store,
                   mem_store, meta, file_vars,
                   agent_vars, call_vars>>

\* Thread.get_message_by_id: the position of the first message with that id
\* (0: no message has it)
RECURSIVE GetMessageById(_, _, _)
GetMessageById(msgs, id, i) ==
    IF i > Len(msgs) THEN 0
    ELSE IF msgs[i].id = id THEN i
    ELSE GetMessageById(msgs, id, i + 1)

\* Message.add_reaction: the message afterwards and the value returned
MessageAddReaction(m, emoji, user) ==
    IF user \in m.reactions[emoji]
    THEN [message |-> m, result |-> FALSE]
    ELSE [message |-> [m EXCEPT !.reactions[emoji] = @ \cup {user}],
          result |-> TRUE]

\* Message.remove_reaction: the message afterwards and the value returned
MessageRemoveReaction(m, emoji, user) ==
    IF user \notin m.reactions[emoji]
    THEN [message |-> m, result |-> FALSE]
    ELSE [message |-> [m EXCEPT !.reactions[emoji] = @ \ {user}],
          result |-> TRUE]

\* updated_at after add_reaction or remove_reaction on a message it found
MutReactionUpdatedAt(result, old, now) == now

ReactionUpdatedAt(result, old, now) == IF result THEN now ELSE old

\* the rest of add_reaction and of remove_reaction once the message call
\* has returned r (position 0: no message was found)
ReactionCall(op, arg, i, r) ==
    IF i = 0
    THEN /\ last' = Call(op, arg, FALSE, <<>>)
         /\ UNCHANGED <<messages, updated_at>>
    ELSE /\ messages' = [messages EXCEPT ![i] = r.message]
         /\ updated_at' = ReactionUpdatedAt(r.result, updated_at, clock)
         /\ last' = Call(op, arg, r.result, <<>>)

\* thread.add_reaction(message_id, emoji, user_id)
ThreadAddReaction(id, emoji, user) ==
    /\ LET i == GetMessageById(messages, id, 1)
       IN ReactionCall("add_reaction", <<id, emoji, user>>, i,
                       IF i = 0 THEN NoCall
                       ELSE MessageAddReaction(messages[i], emoji, user))
    /\ UNCHANGED <<clock, created_at, sql_store, mem_store, meta, file_vars,
                   agent_vars, call_vars>>

\* thread.remove_reaction(message_id, emoji, user_id)
ThreadRemoveReaction(id, emoji, user) ==
    /\ LET i == GetMessageById(messages, id, 1)
       IN ReactionCall("remove_reaction", <<id, emoji, user>>, i,
                       IF i = 0 THEN NoCall
                       ELSE MessageRemoveReaction(messages[i], emoji, user))
    /\ UNCHANGED <<clock, created_at, sql_store, mem_store, meta, file_vars,
                   agent_vars, call_vars>>

\* ------------------------------------------------------------------------
\* Storage backends
\* ------------------------------------------------------------------------

\* SQLBackend._create_message_record
CreateMessageRecord(m, sequence) ==
    [id |-> m.id, sequence |-> sequence, role |-> m.role,
     content |-> m.content, name |-> m.name,
     tool_call_id |-> m.tool_call_id, tool_calls |-> m.tool_calls,
     metrics |-> m.metrics]

\* a variant of NonSystemSequence: the counter starts at 0
MutNonSystemSequence(i) == i - 1

\* the sequence SQLBackend.save gives the i-th non-system message: a counter
\* that starts at 1 and is incremented after every record
NonSystemSequence(i) == i

\* the MessageRecords SQLBackend.save builds: those of the system messages
\* with sequence 0, then those of the other messages numbered from 1
MessageRecords(msgs) ==
    [i \in 1..Len(SelectSeq(msgs, IsSystem)) |->
        CreateMessageRecord(SelectSeq(msgs, IsSystem)[i], 0)]
    \o [i \in 1..Len(SelectSeq(msgs, IsNotSystem)) |->
        CreateMessageRecord(SelectSeq(msgs, IsNotSystem)[i], NonSystemSequence(i))]

\* an attachment that a message was given: whether it holds bytes, its status
\* and the id of its file in the file store (0 is None)
NewAttachment(content) == [content |-> content, status |-> "pending", file_id |-> 0]

\* thread.add_message(message) of a user message that holds one attachment
ThreadAddAttachment(content) ==
    /\ Len(messages) < MaxMessages
    /\ messages' = AddMessage(messages, NewMessage("user", messages))
    /\ attachments' = Append(attachments, NewAttachment(content))
    /\ updated_at' = clock
    /\ last' = Call("add_message", "user", FALSE, <<>>)
    /\ UNCHANGED <<clock, created_at, sql_store, mem_store, meta, files,
                   file_store, saving, agent_vars, call_vars>>

\* json.dumps then json.loads of a value of a JSON column: a tuple comes
\* back as a list
JsonRoundTrip(v) == IF v = "tuple" THEN "list" ELSE v

\* Attachment.process_and_store has work to do
NotStored(a) == a.status # "stored"

\* the texts of the RuntimeError Attachment.process_and_store raises: one
\* that holds "Failed to process attachment" and one that does not
AttachmentErrors == {"Failed to process attachment", "Cannot process attachment"}

\* the first attachment whose process_and_store raises, 0 when none does
FirstFailing(atts) ==
    IF \E k \in 1..Len(atts) : NotStored(atts[k]) /\ ~atts[k].content
    THEN CHOOSE k \in 1..Len(atts) :
           /\ NotStored(atts[k]) /\ ~atts[k].content
           /\ \A j \in 1..(k - 1) : ~(NotStored(atts[j]) /\ ~atts[j].content)
    ELSE 0

\* the attachments whose files the loop over the attachments writes before
\* it ends or raises at the attachment failing
WrittenBy(atts, failing) ==
    {k \in 1..Len(atts) : /\ failing = 0 \/ k < failing
                          /\ NotStored(atts[k]) /\ atts[k].content}

\* the attachments after the loop: the file of attachment k has id k
ProcessAndStore(atts, failing) ==
    [k \in 1..Len(atts) |->
        IF k \in WrittenBy(atts, failing)
        THEN [atts[k] EXCEPT !.status = "stored", !.file_id = k]
        ELSE IF k = failing THEN [atts[k] EXCEPT !.status = "failed"]
        ELSE atts[k]]

\* the except clause of SQLBackend.save calls _cleanup_failed_attachments
CleansUp(e) ==
    e.type = "RuntimeError" /\ e.text = "Failed to process attachment"

\* the exception that leaves SQLBackend.save for the exception e it caught:
\* SQLBackend has no attribute _cleanup_failed_attachments, so the call of
\* it raises an AttributeError inside the except clause; other exceptions
\* are wrapped in a RuntimeError
SaveRaises(e) ==
    IF e = NoError THEN NoError
    ELSE IF CleansUp(e)
    THEN Error("AttributeError", "no attribute _cleanup_failed_attachments")
    ELSE IF e.text = "Database error"
    THEN Error("RuntimeError", "Failed to save thread: Database error")
    ELSE IF e.text = "connection lost"
    THEN Error("RuntimeError", "Failed to save thread: connection lost")
    ELSE Error("RuntimeError", "Failed to save thread: Cannot process attachment")

\* the texts of the exceptions the database raises
DbErrors == {"Database error", "connection lost"}

\* the ThreadRecord after async with session.begin(): a transaction that an
\* exception leaves is rolled back
AfterTransaction(old, new, failed) == IF failed THEN old ELSE new

\* the file ids in MessageRecord.attachments of the records save builds
FileIds(atts) == {atts[k].file_id : k \in 1..Len(atts)} \ {0}

\* the ThreadRecord SQLBackend.save builds: platforms is not set
SavedThreadRecord ==
    IF sql_store.exists
    THEN [sql_store EXCEPT !.title = meta.title,
                           !.attributes = JsonRoundTrip(meta.attributes),
                           !.updated_at = clock,
                           !.messages = MessageRecords(messages),
                           !.file_ids = FileIds(attachments)]
    ELSE [exists |-> TRUE, created_at |-> created_at,
          updated_at |-> updated_at,
          messages |-> MessageRecords(messages),
          title |-> meta.title,
          attributes |-> JsonRoundTrip(meta.attributes),
          file_ids |-> FileIds(attachments)]

\* SQLBackend.save(thread): every attachment is processed and stored, the
\* first that fails raises a RuntimeError of the text att_error; then the
\* record is written in one transaction, which raises db_error unless that
\* is "none"; the messages of the thread object are not changed
SqlSave(att_error, db_error) ==
    LET failing == FirstFailing(attachments)
        e == IF failing # 0 THEN Error("RuntimeError", att_error)
             ELSE IF db_error # "none" THEN Error("Exception", db_error)
             ELSE NoError
    IN /\ attachments' = ProcessAndStore(attachments, failing)
       /\ files' = files \cup WrittenBy(attachments, failing)
       /\ file_store' = [file_store EXCEPT
              !.sizes = [k \in files' |-> IF k \in files THEN @[k]
                                          ELSE AttachmentSize]]
       /\ sql_store' = AfterTransaction(sql_store,
              [SavedThreadRecord EXCEPT !.file_ids = FileIds(attachments')],
              e # NoError)
       /\ last' = [Call("save", "sql", e = NoError, <<>>)
                     EXCEPT !.raised = SaveRaises(e)]
       /\ UNCHANGED <<clock, messages, created_at, updated_at, mem_store,
                      meta, saving, agent_vars, call_vars>>

\* thread.add_message(message) of a user message that holds the attachments
\* of the contents: each records the id of its message, and its
\* processed_content is None
ThreadAddAttachments(contents) ==
    /\ Len(messages) < MaxMessages
    /\ Len(attachments) + Len(contents) <= MaxAttachments + 1
    /\ messages' = AddMessage(messages, NewMessage("user", messages))
    /\ attachments' = attachments \o
           [k \in 1..Len(contents) |->
               NewAttachment(contents[k])
                   @@ [message |-> Len(messages) + 1,
                       processed_content |-> <<>>]]
    /\ updated_at' = clock
    /\ last' = Call("add_message", "user", FALSE, <<>>)
    /\ UNCHANGED <<clock, created_at, sql_store, mem_store, meta, files,
                   file_store, saving, agent_vars, call_vars>>

\* Agent._process_message_files(message) of the message of the id owner:
\* get_content_bytes raises for an attachment that holds no bytes, the file
\* processor raises for the attachments fails; the except clause records
\* the error and the loop goes on
ProcessMessageFiles(atts, owner, fails) ==
    [k \in 1..Len(atts) |->
        IF atts[k].message # owner THEN atts[k]
        ELSE [atts[k] EXCEPT !.processed_content =
                 IF ~atts[k].content
                 THEN <<"Failed to process file: ", "No content available">>
                 ELSE IF k \in fails
                 THEN <<"Failed to process file: ", "Unsupported file">>
                 ELSE <<"text">>]]

\* Agent.go(thread) from its entry to the while loop, on the thread object
\* whose last user message holds attachments: the system prompt is ensured,
\* a count at the cap returns at once, else the attachments of the last user
\* message are processed and the thread is saved to the store, if there is
\* one; result is whether go reaches the loop and its first LLM call
GoProcessFiles(fails, backend) ==
    LET owner == messages[CHOOSE i \in 1..Len(messages) :
                     /\ messages[i].role = "user"
                     /\ \A j \in (i + 1)..Len(messages) :
                            messages[j].role # "user"].id
        atts == ProcessMessageFiles(attachments, owner, fails)
        failing == FirstFailing(atts)
        e == IF failing # 0
             THEN Error("RuntimeError", "Failed to process attachment")
             ELSE NoError
    IN /\ attachments # <<>>
       /\ messages' = IF messages[1].role = "system" THEN messages
                      ELSE AddMessage(messages, NewMessage("system", messages))
       /\ IF CapOnEntry(iteration_count)
          THEN /\ last' = Call("go", "cap", FALSE, <<>>)
               /\ UNCHANGED <<attachments, files, file_store, sql_store,
                              mem_store>>
          ELSE IF backend = "sql"
          THEN /\ attachments' = ProcessAndStore(atts, failing)
               /\ files' = files \cup WrittenBy(atts, failing)
               /\ file_store' = [file_store EXCEPT
                      !.sizes = [k \in files' |-> IF k \in files THEN @[k]
                                                  ELSE AttachmentSize]]
               /\ sql_store' = AfterTransaction(sql_store,
                      [SavedThreadRecord EXCEPT
                          !.messages = MessageRecords(messages'),
                          !.file_ids = FileIds(attachments')],
                      e # NoError)
               /\ last' = [Call("go", backend, e = NoError, <<>>)
                             EXCEPT !.raised = SaveRaises(e)]
               /\ UNCHANGED mem_store
          ELSE /\ attachments' = atts
               /\ mem_store' = (mem_store \/ backend = "memory")
               /\ last' = Call("go", backend, TRUE, <<>>)
               /\ UNCHANGED <<files, file_store, sql_store>>
       /\ UNCHANGED <<clock, created_at, updated_at, meta, saving, agent_vars,
                      call_vars>>

\* ------------------------------------------------------------------------
\* FileStore
\* ------------------------------------------------------------------------

\* DEFAULT_ALLOWED_MIME_TYPES, as far as the types callers give go
AllowedMimeTypes == {"text/plain"}

\* FileStore.get_storage_size(): the sum of the sizes of the files
GetStorageSize ==
    LET RECURSIVE SumSizes(_)
        SumSizes(ids) ==
            IF ids = {} THEN 0
            ELSE LET id == CHOOSE i \in ids : TRUE
                 IN file_store.sizes[id] + SumSizes(ids \ {id})
    IN SumSizes(files)

\* FileStore.validate_file: the exception it raises, "none" when it returns
ValidateFile(size, mime_type) ==
    IF size > file_store.max_file_size THEN "FileTooLargeError"
    ELSE IF mime_type \notin AllowedMimeTypes THEN "UnsupportedFileTypeError"
    ELSE "none"

\* the exception FileStore.save raises before it writes, "none" when it
\* goes on to write; if self.max_storage_size: is false for None and for 0
SaveError(size, mime_type) ==
    IF ValidateFile(size, mime_type) # "none" THEN ValidateFile(size, mime_type)
    ELSE IF /\ file_store.max_storage_size \notin {None, 0}
            /\ size + GetStorageSize > file_store.max_storage_size
    THEN "StorageFullError"
    ELSE "none"

\* a variant of Writes: the capacity is checked after the file is written
MutWrites(error) == error \in {"none", "StorageFullError"}

\* FileStore.save reaches file_path.write_bytes(content)
Writes(error) == error = "none"

\* FileStore.save(content, filename, mime_type) of content of size bytes
FileStoreSave(size, mime_type) ==
    LET error == SaveError(size, mime_type)
        id == file_store.next_id
    IN /\ id <= MaxFiles
       /\ files' = IF Writes(error) THEN files \cup {id} ELSE files
       /\ file_store' = [file_store EXCEPT
              !.sizes = [k \in files' |-> IF k \in files THEN @[k] ELSE size],
              !.next_id = IF Writes(error) THEN @ + 1 ELSE @]
       /\ last' = [Call("save", "file", error = "none", <<>>)
                     EXCEPT !.raised = Error(error, "none")]
       /\ UNCHANGED <<clock, messages, created_at, updated_at, sql_store,
                      mem_store, meta, attachments, saving, agent_vars,
                      call_vars>>

\* FileStore.delete(file_id): FileNotFoundError when no such file exists
FileStoreDelete(id) ==
    /\ files' = files \ {id}
    /\ file_store' = [file_store EXCEPT !.sizes = [k \in files' |-> @[k]]]
    /\ last' = [Call("delete", "file", id \in files, <<>>)
                  EXCEPT !.raised = IF id \in files THEN NoError
                                    ELSE Error("FileNotFoundError", "none")]
    /\ UNCHANGED <<clock, messages, created_at, updated_at, sql_store,
                   mem_store, meta, attachments, saving, agent_vars,
                   call_vars>>

\* SQLBackend.save(thread) up to async with session.begin(): the loop over
\* the attachments; the call ends here when an attachment fails, and waits
\* for the database otherwise
SaveAttachments(att_error) ==
    LET failing == FirstFailing(attachments)
    IN /\ saving = NoSave
       /\ attachments' = ProcessAndStore(attachments, failing)
       /\ files' = files \cup WrittenBy(attachments, failing)
       /\ file_store' = [file_store EXCEPT
              !.sizes = [k \in files' |-> IF k \in files THEN @[k]
                                          ELSE AttachmentSize]]
       /\ saving' = IF failing # 0 THEN NoSave ELSE "transaction"
       /\ last' = IF failing # 0
                  THEN [Call("save", "sql", FALSE, <<>>) EXCEPT
                          !.raised = SaveRaises(Error("RuntimeError", att_error))]
                  ELSE last
       /\ UNCHANGED <<clock, messages, created_at, updated_at, sql_store,
                      mem_store, meta, agent_vars, call_vars>>

\* SQLBackend.save(thread) from async with session.begin(): the record is
\* built from the thread as it is now and committed, or db_error is raised
SaveTransaction(db_error) ==
    /\ saving = "transaction"
    /\ saving' = NoSave
    /\ sql_store' = AfterTransaction(sql_store, SavedThreadRecord,
                                     db_error # "none")
    /\ last' = [Call("save", "sql", db_error = "none", <<>>) EXCEPT
                  !.raised = IF db_error = "none" THEN NoError
                             ELSE SaveRaises(Error("Exception", db_error))]
    /\ UNCHANGED <<clock, messages, created_at, updated_at, mem_store, meta,
                   attachments, files, file_store, agent_vars, call_vars>>

\* FileStore.cleanup_orphaned_files(session): the file ids of the committed
\* MessageRecords are read, and every stored file that is not among them is
\* deleted
CleanupOrphanedFiles ==
    /\ files' = files \cap sql_store.file_ids
    /\ file_store' = [file_store EXCEPT !.sizes = [k \in files' |-> @[k]]]
    /\ last' = Call("cleanup_orphaned_files", "file", TRUE, <<>>)
    /\ UNCHANGED <<clock, messages, created_at, updated_at, sql_store,
                   mem_store, meta, attachments, saving, agent_vars,
                   call_vars>>

\* SQLBackend._create_message_from_record
CreateMessageFromRecord(rec) ==
    [role |-> rec.role, content |-> rec.content,
     tool_calls |-> rec.tool_calls, tool_call_id |-> rec.tool_call_id,
     name |-> rec.name, metrics |-> rec.metrics, sequence |-> rec.sequence,
     id |-> rec.id, reactions |-> NoReactions]

\* sorted(..., key=lambda m: m.sequence) of records
RECURSIVE SortedBySequence(_)
SortedBySequence(recs) ==
    IF recs = <<>> THEN <<>>
    ELSE LET lo == CHOOSE i \in 1..Len(recs) :
                     /\ \A j \in 1..Len(recs) : recs[i].sequence <= recs[j].sequence
                     /\ \A j \in 1..(i - 1) : recs[j].sequence > recs[i].sequence
         IN <<recs[lo]>> \o SortedBySequence(
                [k \in 1..(Len(recs) - 1) |-> IF k < lo THEN recs[k] ELSE recs[k + 1]])

\* the messages of SQLBackend._create_thread_from_record: the records sorted
\* by (0 if role is system else 1, sequence), each made a Message
CreateThreadFromRecord(record) ==
    LET sorted == SortedBySequence(SelectSeq(record.messages, IsSystem))
                  \o SortedBySequence(SelectSeq(record.messages, IsNotSystem))
    IN [i \in 1..Len(sorted) |-> CreateMessageFromRecord(sorted[i])]

\* the title, attributes and platforms of the Thread
\* SQLBackend._create_thread_from_record makes: platforms is not passed
ThreadMetaFromRecord(record) ==
    [title |-> record.title, attributes |-> record.attributes,
     platforms |-> DefaultMeta.platforms]

\* SQLBackend.get(thread.id)
SqlGet ==
    /\ last' = [Call("get", "sql", sql_store.exists,
                     IF sql_store.exists THEN CreateThreadFromRecord(sql_store)
                     ELSE <<>>)
                 EXCEPT !.meta = IF sql_store.exists
                                 THEN ThreadMetaFromRecord(sql_store)
                                 ELSE NoMeta]
    /\ UNCHANGED <<clock, messages, created_at, updated_at, sql_store,
                   mem_store, meta, file_vars,
                   agent_vars, call_vars>>

\* MemoryBackend.save(thread): _threads holds the thread object itself
MemorySave ==
    /\ mem_store' = TRUE
    /\ last' = Call("save", "memory", TRUE, <<>>)
    /\ UNCHANGED <<clock, messages, created_at, updated_at, sql_store,
                   meta, file_vars,
                   agent_vars, call_vars>>

\* the messages of the thread MemoryBackend.get returns in a state:
\* _threads holds the thread object the callers go on using
MemoryReturns == IF mem_store THEN messages ELSE <<>>

\* MemoryBackend.get(thread.id): the object that was saved, as it is now
MemoryGet ==
    /\ last' = [Call("get", "memory", mem_store,
                     IF mem_store THEN messages ELSE <<>>)
                 EXCEPT !.meta = IF mem_store THEN meta ELSE NoMeta]
    /\ UNCHANGED <<clock, messages, created_at, updated_at, sql_store,
                   mem_store, meta, file_vars,
                   agent_vars, call_vars>>

\* ------------------------------------------------------------------------
\* AgentRunner.run_agent
\* ------------------------------------------------------------------------

\* the names of the agents that are registered
Agents == {"helper"}

\* the names, tasks and contexts callers pass: no context, an empty dict
\* and a dict that holds one key
AgentNames == {"helper", "nonexistent"}

Tasks == {"task"}

Contexts == {"None", "{}", "{'key': 'value'}"}

\* the content of the context message
ContextStr(context) ==
    IF context = "{}"
    THEN "Here is additional context that may be helpful:<newline>{}"
    ELSE "Here is additional context that may be helpful:<newline>{'key': 'value'}"

\* a variant of ContextGiven: every context that is not None counts
MutContextGiven(context) == context # "None"

\* if context: None and an empty dict are false
ContextGiven(context) == context \notin {"None", "{}"}

\* the temporary thread run_agent builds
RunnerThread(task, context) ==
    LET with_task == AddMessage(<<>>, Msg("user", task, NoToolCalls, NoId, "", "none"))
    IN IF ContextGiven(context)
       THEN AddMessage(with_task,
                       Msg("user", ContextStr(context), NoToolCalls, NoId, "", "none"))
       ELSE with_task

\* the messages agent.go returns to run_agent
RunnerMessages ==
    {Msg("assistant", "first", NoToolCalls, NoId, "", "none"),
     Msg("assistant", "second", NoToolCalls, NoId, "", "none"),
     Msg("assistant", "", <<[id |-> 1, name |-> "tool"]>>, NoId, "", "none"),
     Msg("tool", ToolResultContent, NoToolCalls, 1, "tool", "none")}

GoResults ==
    UNION {[1..n -> RunnerMessages] : n \in 0..MaxNewMessages}

IsAssistant(m) == m.role = "assistant"

\* what run_agent returns first for the messages agent.go returned: the
\* content of the last assistant message
Response(new_msgs) ==
    IF SelectSeq(new_msgs, IsAssistant) = <<>> THEN "No response generated."
    ELSE SelectSeq(new_msgs, IsAssistant)[Len(SelectSeq(new_msgs, IsAssistant))].content

\* run_agent(name, task, context) up to the await of agent.go
RunAgent(name, task, context) ==
    /\ runner.pc = "idle"
    /\ runner' =
         IF name \notin Agents
         THEN [NoRun EXCEPT !.pc = "done", !.name = name, !.task = task,
                            !.context = context, !.raised = "ValueError"]
         ELSE [NoRun EXCEPT !.pc = "go", !.name = name, !.task = task,
                            !.context = context,
                            !.thread = RunnerThread(task, context),
                            !.go_calls = 1]
    /\ UNCHANGED <<thread_vars, agent_vars, stream, projection>>

\* agent.go returns new_msgs to run_agent
GoReturns(new_msgs) ==
    /\ runner.pc = "go"
    /\ runner' = [runner EXCEPT !.pc = "done", !.new_messages = new_msgs,
                                !.response = Response(new_msgs)]
    /\ UNCHANGED <<thread_vars, agent_vars, stream, projection>>

\* agent.go raises: run_agent logs the exception and raises it again
GoRaises ==
    /\ runner.pc = "go"
    /\ runner' = [runner EXCEPT !.pc = "done", !.raised = "Exception"]
    /\ UNCHANGED <<thread_vars, agent_vars, stream, projection>>

\* ------------------------------------------------------------------------
\* Agent._process_streaming_chunks
\* ------------------------------------------------------------------------

\* a string as the pieces it is made of: the empty string has none
Text(str) == IF str = "" THEN <<>> ELSE <<str>>

\* the indexes of the tool calls a provider streams and the fragments of
\* their arguments
Indexes == {0, 1}

ArgumentFragments == {"{'param': ", "'value'}"}

\* the delta of a tool call: the first of an index holds the id and the
\* name of the function, those that follow hold None
ToolCallDelta(index, arguments, first) ==
    [index |-> index,
     id |-> IF first THEN index + 1 ELSE NoId,
     name |-> IF first THEN "test_tool" ELSE "None",
     arguments |-> arguments]

\* the deltas of the tool calls of the chunks, in arrival order
RECURSIVE ToolCallDeltas(_)
ToolCallDeltas(chunks) ==
    IF chunks = <<>> THEN <<>>
    ELSE chunks[1].tool_calls \o ToolCallDeltas(Tail(chunks))

\* the chunk is the first that holds a tool call of the index
FirstOfIndex(index) ==
    \A i \in 1..Len(ToolCallDeltas(stream.chunks)) :
        ToolCallDeltas(stream.chunks)[i].index # index

\* the entry the loop appends to tool_calls for one delta
ToolCallEntry(delta) ==
    [id |-> delta.id, type |-> "function", name |-> delta.name,
     arguments |-> Text(delta.arguments)]

\* one turn of async for chunk in chunks: the content of the delta is
\* added to combined_content and every tool call of the delta is appended
ProcessChunk(chunk) ==
    /\ Len(stream.chunks) < MaxChunks
    /\ stream' =
         [chunks |-> Append(stream.chunks, chunk),
          content |-> stream.content \o Text(chunk.content),
          tool_calls |-> stream.tool_calls
                         \o [i \in 1..Len(chunk.tool_calls) |->
                               ToolCallEntry(chunk.tool_calls[i])]]
    /\ UNCHANGED <<thread_vars, agent_vars, runner, projection>>

\* a chunk that holds content arrives
ContentChunk(content) ==
    ProcessChunk([content |-> content, tool_calls |-> <<>>])

\* a chunk that holds the delta of one tool call arrives
ToolCallChunk(index, arguments) ==
    ProcessChunk([content |-> "",
                  tool_calls |-> <<ToolCallDelta(index, arguments,
                                                 FirstOfIndex(index))>>])

\* ------------------------------------------------------------------------
\* Message.to_chat_completion_message
\* ------------------------------------------------------------------------

\* the attachments of a message: storage_path is "" until the attachment
\* is stored
Attachments ==
    [storage_path : {"", "ab/file"}, mime_type : {"text/plain", "image/png"}]

AttachmentLists ==
    UNION {[1..n -> Attachments] : n \in 0..MaxAttachments}

IsStored(attachment) == attachment.storage_path # ""

\* the reference of a stored attachment
FileRef(attachment) ==
    IF attachment.mime_type = "text/plain"
    THEN "[File: /files/ab/file (text/plain)]"
    ELSE "[File: /files/ab/file (image/png)]"

\* the references of the stored attachments joined by newlines
RECURSIVE JoinedFileRefs(_)
JoinedFileRefs(atts) ==
    IF SelectSeq(atts, IsStored) = <<>> THEN <<>>
    ELSE IF Len(SelectSeq(atts, IsStored)) = 1
    THEN <<FileRef(SelectSeq(atts, IsStored)[1])>>
    ELSE <<FileRef(SelectSeq(atts, IsStored)[1]), "<newline>">>
         \o JoinedFileRefs(Tail(SelectSeq(atts, IsStored)))

\* the content of the chat completion message of a message that holds
\* attachments: the references follow the content of user and tool
\* messages, and follow a header in assistant messages
ChatCompletionContent(m, atts) ==
    IF JoinedFileRefs(atts) = <<>> THEN Text(m.content)
    ELSE IF m.role \in {"user", "tool"}
    THEN IF m.content # ""
         THEN Text(m.content) \o <<"<newline><newline>">> \o JoinedFileRefs(atts)
         ELSE JoinedFileRefs(atts)
    ELSE IF m.role = "assistant"
    THEN IF m.content # ""
         THEN Text(m.content) \o <<"<newline><newline>Generated Files:<newline>">>
              \o JoinedFileRefs(atts)
         ELSE <<"Generated Files:<newline>">> \o JoinedFileRefs(atts)
    ELSE Text(m.content)

\* message.to_chat_completion_message() of a message of the role, the
\* content and the attachments
Project(role, content, atts) ==
    LET m == Sequenced(<<>>, Msg(role, content, NoToolCalls,
                                 IF role = "tool" THEN 1 ELSE NoId, "", "none"))
    IN /\ projection' =
            [called |-> TRUE, message |-> m, attachments |-> atts,
             result |-> [ToChatCompletionMessage(m)
                            EXCEPT !.content = ChatCompletionContent(m, atts)]]
       /\ UNCHANGED <<thread_vars, agent_vars, runner, stream>>

\* ------------------------------------------------------------------------
\* Specifications
\* ------------------------------------------------------------------------

\* what a turn does once go has been entered
TurnStep(t, R) ==
    \/ StepReturns(t, R)
    \/ StepRaises(t)
    \/ StepReturnsNone(t)
    \/ ToolReturns(t)
    \/ SaveReturns(t)

\* the caller serializes the turns of the agent
Next ==
    \/ \E t \in SerialTurns : GoEnter(t)
    \/ \E t \in SerialTurns : TurnStep(t, Responses)
    \/ SetIterationCount

Spec == Init /\ [][Next]_vars

\* the serialized turns with short responses, where every LLM call, every
\* tool call and every save returns
NextShort ==
    \/ \E t \in SerialTurns : GoEnter(t)
    \/ \E t \in SerialTurns : TurnStep(t, ShortResponses)
    \/ SetIterationCount

FairSpec ==
    /\ Init /\ [][NextShort]_vars
    /\ \A t \in SerialTurns : WF_vars(TurnStep(t, ShortResponses))

\* turns of the agent overlap (asyncio.gather of two go calls, or a tool
\* that runs the same agent through AgentRunner.run_agent)
NextOverlap ==
    \/ \E t \in Turns : GoEnter(t)
    \/ \E t \in Turns : TurnStep(t, OverlapResponses)

SpecOverlap == Init /\ [][NextOverlap]_vars

\* a thread that has just been constructed, beside an agent that runs no
\* turn
ThreadInit ==
    /\ AgentInit /\ max_tool_iterations = MaxCap /\ ~thread_store
    /\ NewThread /\ meta = DefaultMeta
    /\ file_store = FileStore(None, None)

\* callers add messages of any roles to one thread object, clear it and
\* take its chat completion messages
ThreadNext ==
    \/ \E role \in Roles : ThreadAddMessage(role)
    \/ ThreadClearMessages
    \/ ThreadGetMessagesForChatCompletion

ThreadSpec == ThreadInit /\ [][ThreadNext]_vars

\* callers add messages to one thread object, clear it and react to its
\* messages while the clock moves on
ReactionNext ==
    \/ Tick
    \/ \E role \in ReactedRoles : ThreadAddMessage(role)
    \/ ThreadClearMessages
    \/ \E id \in MessageIds, emoji \in Emojis, user \in Users :
           ThreadAddReaction(id, emoji, user)
    \/ \E id \in MessageIds, emoji \in Emojis, user \in Users :
           ThreadRemoveReaction(id, emoji, user)

ReactionSpec == ThreadInit /\ [][ReactionNext]_vars

\* callers build one thread object, save it to the backends and get it back
StoreNext ==
    \/ \E role \in Roles : ThreadAddMessage(role)
    \/ SqlSave("Failed to process attachment", "none")
    \/ SqlGet
    \/ MemorySave
    \/ MemoryGet

StoreSpec == ThreadInit /\ [][StoreNext]_vars

\* callers build one thread object, react to its messages, save it to the
\* SQL backend and get it back
ReactionStoreNext ==
    \/ \E role \in ReactedRoles : ThreadAddMessage(role)
    \/ \E id \in MessageIds, emoji \in Emojis, user \in Users :
           ThreadAddReaction(id, emoji, user)
    \/ \E id \in MessageIds, emoji \in Emojis, user \in Users :
           ThreadRemoveReaction(id, emoji, user)
    \/ SqlSave("Failed to process attachment", "none")
    \/ SqlGet

ReactionStoreSpec == ThreadInit /\ [][ReactionStoreNext]_vars

\* a thread that has just been constructed with a title, attributes and
\* platforms
MetaInit ==
    /\ AgentInit /\ max_tool_iterations = MaxCap /\ ~thread_store
    /\ NewThread
    /\ file_store = FileStore(None, None)

\* callers build one thread object that has a title, attributes and
\* platforms, save it to the SQL backend and get it back
MetaStoreNext ==
    \/ \E role \in Roles : ThreadAddMessage(role)
    \/ SqlSave("Failed to process attachment", "none")
    \/ SqlGet

MetaStoreSpec == MetaInit /\ [][MetaStoreNext]_vars

\* callers construct messages and add them to one thread object, and react
\* to its messages by their ids, while the clock moves on
IdNext ==
    \/ Tick
    \/ \E role \in {"user", "assistant"}, content \in {"hello", "bye"} :
           ThreadAddConstructed(role, content)
    \/ \E i \in 1..Len(messages), emoji \in Emojis, user \in Users :
           ThreadAddReaction(messages[i].id, emoji, user)

IdSpec == ThreadInit /\ [][IdNext]_vars

\* a file store of any configuration, beside an unused thread
FileStoreInit ==
    /\ AgentInit /\ max_tool_iterations = MaxCap /\ ~thread_store
    /\ NewThread /\ meta = DefaultMeta

\* callers save files of any size and type to one file store and delete
\* files from it
FileStoreNext ==
    \/ \E size \in 0..MaxContent,
          mime_type \in {"text/plain", "application/x-msdownload"} :
           FileStoreSave(size, mime_type)
    \/ \E id \in 1..MaxFiles : FileStoreDelete(id)

FileStoreSpec == FileStoreInit /\ [][FileStoreNext]_vars

\* callers add messages that hold attachments to one thread object, save
\* it to the SQL backend while attachments and the database may fail, and
\* get it back
AttachmentNext ==
    \/ \E content \in BOOLEAN : ThreadAddAttachment(content)
    \/ \E att_error \in AttachmentErrors, db_error \in {"none"} \cup DbErrors :
           SqlSave(att_error, db_error)
    \/ SqlGet

AttachmentSpec == ThreadInit /\ [][AttachmentNext]_vars

\* callers add messages that hold attachments to one thread object and
\* save it to the SQL backend, while the orphaned files of the file store
\* are cleaned up whenever the save waits
CleanupNext ==
    \/ \E content \in BOOLEAN : ThreadAddAttachment(content)
    \/ \E att_error \in AttachmentErrors : SaveAttachments(att_error)
    \/ \E db_error \in {"none"} \cup DbErrors : SaveTransaction(db_error)
    \/ CleanupOrphanedFiles

CleanupSpec == ThreadInit /\ [][CleanupNext]_vars

\* callers add user messages that hold attachments to one thread object and
\* hand it to go of an agent without a thread store, or with one of either
\* backend
ProcessNext ==
    \/ \E contents \in UNION {[1..n -> BOOLEAN] : n \in 1..MaxAttachments} :
           ThreadAddAttachments(contents)
    \/ \E fails \in SUBSET (1..(MaxAttachments + 1)),
          backend \in IF thread_store THEN {"memory", "sql"} ELSE {"none"} :
           GoProcessFiles(fails, backend)

ProcessSpec == Init /\ [][ProcessNext]_vars

\* a caller runs a registered or an unregistered agent on a task, and the
\* agent returns messages or raises
RunnerNext ==
    \/ \E name \in AgentNames, task \in Tasks, context \in Contexts :
           RunAgent(name, task, context)
    \/ \E new_msgs \in GoResults : GoReturns(new_msgs)
    \/ GoRaises

RunnerSpec == ThreadInit /\ [][RunnerNext]_vars

\* the chunks of one streamed completion arrive
StreamNext ==
    \/ \E content \in {"text"} : ContentChunk(content)
    \/ \E index \in Indexes, arguments \in ArgumentFragments :
           ToolCallChunk(index, arguments)

StreamSpec == ThreadInit /\ [][StreamNext]_vars

\* callers take the chat completion messages of messages that hold
\* attachments
ProjectionNext ==
    \E role \in {"user", "assistant", "tool"}, content \in {"", "content"},
       atts \in AttachmentLists : Project(role, content, atts)

ProjectionSpec == ThreadInit /\ [][ProjectionNext]_vars

\* ------------------------------------------------------------------------
\* Reading a transcript
\* ------------------------------------------------------------------------

IsAssistantWithCalls(m) == m.role = "assistant" /\ m.tool_calls # NoToolCalls

IsToolMessage(m) == m.role = "tool"

IsCapMessage(m) ==
    m.role = "assistant" /\ m.content = CapContent /\ m.tool_calls = NoToolCalls

IsInterruptMessage(m) ==
    m.role = "tool" /\ ToolAttributeType(m.name) = "interrupt"

Count(s, P(_)) == Cardinality({i \in 1..Len(s) : P(s[i])})

\* the number of tool messages that directly follow position i of s
RECURSIVE ToolRun(_, _)
ToolRun(s, i) ==
    IF i + 1 <= Len(s) /\ IsToolMessage(s[i + 1]) THEN 1 + ToolRun(s, i + 1) ELSE 0

\* the tool messages after the assistant message at i answer its tool calls
\* one by one: the k-th message carries the id and the name of the k-th call
AnsweredInOrder(s, i) ==
    /\ ToolRun(s, i) <= Len(s[i].tool_calls)
    /\ \A k \in 1..ToolRun(s, i) :
         /\ s[i + k].tool_call_id = s[i].tool_calls[k].id
         /\ s[i + k].name = s[i].tool_calls[k].name

\* every tool call of the assistant message at i has its tool message
AnsweredFully(s, i) ==
    /\ AnsweredInOrder(s, i)
    /\ ToolRun(s, i) = Len(s[i].tool_calls)

\* the number of answered tool-call rounds s consists of from position i on,
\* when s ends with the cap message right after them (negative otherwise)
RECURSIVE RoundsThenCap(_, _)
RoundsThenCap(s, i) ==
    IF i > Len(s) THEN -100
    ELSE IF i = Len(s) THEN (IF IsCapMessage(s[i]) THEN 0 ELSE -100)
    ELSE IF IsAssistantWithCalls(s[i]) /\ AnsweredFully(s, i)
         THEN 1 + RoundsThenCap(s, i + 1 + Len(s[i].tool_calls))
         ELSE -100

\* the position of the nearest assistant message before position j (0: none)
RECURSIVE NearestAssistant(_, _)
NearestAssistant(s, j) ==
    IF j <= 1 THEN 0
    ELSE IF s[j - 1].role = "assistant" THEN j - 1
    ELSE NearestAssistant(s, j - 1)

CallIds(m) == {m.tool_calls[k].id : k \in 1..Len(m.tool_calls)}

Last(s) == s[Len(s)]

\* ------------------------------------------------------------------------
\* Claims
\* ------------------------------------------------------------------------

\* C1: a call of go that starts with iteration_count = 0 while no other turn
\* of the agent runs makes at most max_tool_iterations LLM calls, and it
\* terminates when every LLM call, tool call and save returns.
C1_GoTerminatesWithinCap ==
    /\ [](\A t \in Turns : start_count[t] = 0 => llm_calls[t] <= max_tool_iterations)
    /\ \A t \in SerialTurns :
         (Active(t) /\ start_count[t] = 0) ~> (pc[t] \in {"returned", "raised"})

C1_Witness ==
    \E t \in Turns :
        /\ pc[t] = "returned" /\ start_count[t] = 0
        /\ max_tool_iterations = MaxCap /\ llm_calls[t] = MaxCap

\* C2: when every LLM response of a turn has tool calls and no interrupt tool
\* is called, go with max_tool_iterations = N >= 1 (count 0 at entry) makes
\* exactly N LLM calls and returns N rounds (an assistant message with
\* tool_calls followed by the tool messages of its calls) and then the cap
\* message.
C2_CapAfterNRounds ==
    \A t \in Turns :
        (/\ pc[t] = "returned" /\ start_count[t] = 0
         /\ max_tool_iterations >= 1
         /\ Count(new_messages[t], IsAssistantWithCalls) = llm_calls[t]
         /\ Count(new_messages[t], IsInterruptMessage) = 0)
        => /\ llm_calls[t] = max_tool_iterations
           /\ Count(Returned(t), IsAssistantWithCalls) = max_tool_iterations
           /\ Count(Returned(t), IsCapMessage) = 1
           /\ RoundsThenCap(Returned(t), 1) = max_tool_iterations

C2_Witness ==
    \E t \in Turns :
        /\ pc[t] = "returned" /\ start_count[t] = 0
        /\ max_tool_iterations = 2 /\ llm_calls[t] = 2
        /\ Len(Returned(t)) = 5
        /\ RoundsThenCap(Returned(t), 1) = 2

\* C3: the iteration in which an interrupt tool is invoked is the last one of
\* the turn: its tool message is the last message, no LLM call follows, there
\* is no cap message, and when it is the only tool call of the turn what go
\* returns is the assistant message and the tool message.
C3_InterruptEndsTurn ==
    \A t \in Turns :
        Count(new_messages[t], IsInterruptMessage) > 0
        => /\ pc[t] \in {"save", "returned"}
           /\ Count(new_messages[t], IsInterruptMessage) = 1
           /\ IsInterruptMessage(Last(new_messages[t]))
           /\ Count(new_messages[t], IsCapMessage) = 0
           /\ llm_calls[t] = Count(new_messages[t], IsAssistantWithCalls)
           /\ (Count(new_messages[t], IsToolMessage) = 1
               => /\ Len(Returned(t)) = 2
                  /\ IsAssistantWithCalls(Returned(t)[1])
                  /\ Returned(t)[2].tool_call_id = Returned(t)[1].tool_calls[1].id)

C3_Witness ==
    \E t \in Turns :
        /\ pc[t] = "returned"
        /\ Len(Returned(t)) = 2
        /\ Len(Returned(t)[1].tool_calls) = 1
        /\ IsInterruptMessage(Returned(t)[2])

\* C4: when go returns, every tool call of every assistant message of the
\* thread is answered by its tool message, also when an interrupt tool is
\* called before the last call of the array.
C4_AllCallsAnswered ==
    \A t \in Turns :
        pc[t] = "returned"
        => \A i \in 1..Len(thread[t]) :
              IsAssistantWithCalls(thread[t][i]) => AnsweredFully(thread[t], i)

C6_ToolMessagesInCallOrder ==
    \A t \in Turns : \A i \in 1..Len(thread[t]) :
        IsAssistantWithCalls(thread[t][i]) => AnsweredInOrder(thread[t], i)

C6_Witness ==
    \E t \in Turns : \E i \in 1..Len(thread[t]) :
        /\ IsAssistantWithCalls(thread[t][i])
        /\ Len(thread[t][i].tool_calls) = MaxCalls
        /\ ToolRun(thread[t], i) = MaxCalls
        /\ thread[t][i].tool_calls[1].name # thread[t][i].tool_calls[2].name

\* C7: at every return of go (final answer, interrupt, cap in the loop, cap on
\* entry) the agent's iteration_count is 0.
C7_CountZeroOnReturn ==
    [][\A t \in Turns :
          (pc[t] # "returned" /\ pc'[t] = "returned") => iteration_count' = 0]_vars

\* C8: iteration_count is per turn: when turns of the agent overlap, each turn
\* makes at most max_tool_iterations LLM calls, and a turn ends with the cap
\* message only after max_tool_iterations rounds of its own.
C8_BudgetPerTurn ==
    \A t \in Turns :
        /\ llm_calls[t] <= max_tool_iterations
        /\ (pc[t] = "returned" /\ Count(new_messages[t], IsCapMessage) > 0)
           => Count(new_messages[t], IsAssistantWithCalls) = max_tool_iterations

\* C9: go entered with iteration_count = max_tool_iterations makes no LLM
\* call, executes no tool, and returns exactly one message: the assistant
\* message with the cap string.
C9_CapOnEntry ==
    \A t \in Turns :
        (pc[t] # "idle" /\ start_count[t] = max_tool_iterations)
        => /\ llm_calls[t] = 0
           /\ tool_execs[t] = 0
           /\ pc[t] \in {"cap_save", "returned"}
           /\ Len(Returned(t)) = 1
           /\ IsCapMessage(Returned(t)[1])

C9_Witness ==
    \E t \in Turns :
        /\ pc[t] = "returned"
        /\ max_tool_iterations >= 1
        /\ start_count[t] = max_tool_iterations
        /\ Len(Returned(t)) = 1

\* C10: when step raises, go does not raise: the turn ends with one assistant
\* message "I encountered an error: ..." whose metrics carry the error, and
\* the thread is saved when a store is configured.
C10_StepErrorHandled ==
    \A t \in Turns :
        exc[t] = "Completion API error"
        => /\ pc[t] \in {"save", "returned"}
           /\ new_messages[t] # <<>>
           /\ Last(new_messages[t]).content = ErrorPrefixContent
           /\ Last(new_messages[t]).metrics = "error"
           /\ (pc[t] = "returned" /\ thread_store => saved[t] = thread[t])

\* C11: when step returns no response (None), go does not raise: exactly one
\* new message is returned, an assistant message that says "Failed to get
\* valid response", and the thread is saved when a store is configured.
C11_NoneResponseHandled ==
    \A t \in Turns :
        exc[t] = "AttributeError"
        => /\ pc[t] \in {"save", "returned"}
           /\ Len(Returned(t)) = 1
           /\ Last(new_messages[t]).role = "assistant"
           /\ Last(new_messages[t]).content = InvalidResponseContent
           /\ (pc[t] = "returned" /\ thread_store => saved[t] = thread[t])

\* the assistant message m requests the tool of that name
Requests(m, name) ==
    \E k \in 1..Len(m.tool_calls) : m.tool_calls[k].name = name

\* the number of LLM calls that produced the messages s[1..i]: each call
\* that requested tools left one assistant message with tool calls
RoundsUpTo(s, i) ==
    Cardinality({j \in 1..i : IsAssistantWithCalls(s[j])})

\* every tool message of the run after position i carries the content of its
\* tool: the error text for the tool that raised, the result otherwise
ContentsOfRun(s, i) ==
    \A k \in 1..ToolRun(s, i) :
        s[i + k].content = IF s[i + k].name = "failing_tool"
                           THEN ToolErrorContent ELSE ToolResultContent

C13_RequestBeginsWithSystemPrompt ==
    \A t \in Turns :
        pc[t] = "step"
        => /\ CompletionRequest(t) # <<>>
           /\ CompletionRequest(t)[1].role = "system"
           /\ CompletionRequest(t)[1].content = SystemMessage.content
           /\ Count(CompletionRequest(t), IsSystem) = 1
           /\ Len(CompletionRequest(t)) = 1 + Count(thread[t], IsNotSystem)

\* C14: when an assistant message carries several tool calls, the
\* executions of all of them have been started before the loop waits for
\* the result of any of them.
C14_AllCallsStartedBeforeWaiting ==
    \A t \in Turns :
        pc[t] = "tool" => StartedCalls(t) = Len(tool_calls[t])

\* C15: after any sequence of add_message calls with messages of any roles,
\* every non-system message of the thread has a sequence of at least 1 and
\* the sequences of the non-system messages increase strictly in list order.
C15_NonSystemSequencesIncrease ==
    /\ \A i \in 1..Len(messages) :
         IsNotSystem(messages[i]) => messages[i].sequence >= 1
    /\ \A i, j \in 1..Len(messages) :
         (i < j /\ IsNotSystem(messages[i]) /\ IsNotSystem(messages[j]))
         => messages[i].sequence < messages[j].sequence

\* a system message was added between two other messages
C15_Witness ==
    /\ Len(messages) = 3
    /\ messages[1].role = "system" /\ messages[1].id = 2
    /\ messages[2].sequence = 1
    /\ messages[3].sequence = 2

\* the system messages of msgs have sequence 0 and stand before every other
\* message
SystemMessagesFirst(msgs) ==
    \A i \in 1..Len(msgs) :
        IsSystem(msgs[i])
        => /\ msgs[i].sequence = 0
           /\ \A j \in 1..(i - 1) : IsSystem(msgs[j])

C17_ChatCompletionMessages ==
    last.op = "get_messages_for_chat_completion"
    => /\ Len(last.got) = Count(messages, IsNotSystem)
       /\ \A i \in 1..Len(last.got) : last.got[i].role # "system"
       /\ \A i, j \in 1..Len(last.got) :
            i < j => last.got[i].sequence < last.got[j].sequence
       /\ {last.got[i].sequence : i \in 1..Len(last.got)}
            = {messages[i].sequence : i \in {k \in 1..Len(messages) : IsNotSystem(messages[k])}}

\* the list was taken of a thread with a system message and two others
C17_Witness ==
    /\ last.op = "get_messages_for_chat_completion"
    /\ Len(messages) = 3
    /\ Count(messages, IsSystem) = 1
    /\ Len(last.got) = 2

\* C18: with a clock that does not go back, updated_at >= created_at after
\* every mutation of the thread, updated_at never decreases from one call
\* to the next, and add_message and clear_messages set it to the time of
\* the call.
C18_UpdatedAtMonotone ==
    [][/\ updated_at' >= created_at'
       /\ updated_at' >= updated_at
       /\ last'.op \in {"add_message", "clear_messages"} => updated_at' = clock']_vars

\* the thread was cleared after the clock had moved on
C18_Witness ==
    /\ last.op = "clear_messages"
    /\ clock >= 1
    /\ updated_at = clock
    /\ created_at < updated_at

\* the reactions of the messages of msgs
ReactionsOf(msgs) == [i \in 1..Len(msgs) |-> msgs[i].reactions]

\* the user has reacted with the emoji to the message of msgs with that id
HasReaction(msgs, id, emoji, user) ==
    \E i \in 1..Len(msgs) : msgs[i].id = id /\ user \in msgs[i].reactions[emoji]

\* the call named by op with these arguments cannot change the reactions
ChangesNothing(msgs, op, arg) ==
    IF op = "add_reaction"
    THEN \/ \A i \in 1..Len(msgs) : msgs[i].id # arg[1]
         \/ HasReaction(msgs, arg[1], arg[2], arg[3])
    ELSE ~HasReaction(msgs, arg[1], arg[2], arg[3])

\* C19: an add_reaction or remove_reaction call that changes nothing (no
\* message with the id, the user already has the reaction, or the reaction
\* to remove is absent) returns False and leaves updated_at and all
\* reactions as they were; a call that changes the reactions returns True
\* and sets updated_at to the time of the call.
C19_ReactionCalls ==
    [][last'.op \in {"add_reaction", "remove_reaction"}
       => IF ChangesNothing(messages, last'.op, last'.arg)
          THEN /\ last'.result = FALSE
               /\ updated_at' = updated_at
               /\ messages' = messages
          ELSE /\ last'.result = TRUE
               /\ updated_at' = clock'
               /\ ReactionsOf(messages') # ReactionsOf(messages)]_vars

\* a user who had reacted added the same reaction again, later
C19_Witness ==
    /\ last.op = "add_reaction"
    /\ last.result = FALSE
    /\ HasReaction(messages, last.arg[1], last.arg[2], last.arg[3])
    /\ updated_at < clock

\* C20: system messages are stripped at the storage boundary: the thread
\* that get returns after save, from the SQL backend or from the in-memory
\* backend, has no message with role system, while save leaves the thread
\* object it was given as it is, its system message included.
C20_SystemMessagesStripped ==
    [][/\ (last'.op = "get" /\ last'.result)
          => \A i \in 1..Len(last'.got) : last'.got[i].role # "system"
       /\ last'.op = "save" => messages' = messages]_vars

C22_ReactionsSurviveRoundTrip ==
    [][(/\ last.op = "save" /\ last.arg = "sql"
        /\ last'.op = "get" /\ last'.arg = "sql")
       => \A i \in 1..Len(last'.got) : \A j \in 1..Len(messages) :
            messages[j].id = last'.got[i].id
            => last'.got[i].reactions = messages[j].reactions]_vars


\* C23: a get of the SQL backend right after a save returns a thread that
\* has the title, the attributes and the platforms of the saved thread, up
\* to a JSON round trip, and for every message that is not a system message
\* its id, role, content, name, tool_call_id, tool_calls and metrics
C23_ThreadAndMessagesRoundTrip ==
    [][(/\ last.op = "save" /\ last.arg = "sql" /\ last.result
        /\ last'.op = "get" /\ last'.arg = "sql")
       => /\ last'.result
          /\ last'.meta.title = meta.title
          /\ last'.meta.attributes = JsonRoundTrip(meta.attributes)
          /\ last'.meta.platforms = JsonRoundTrip(meta.platforms)
          /\ Len(SelectSeq(last'.got, IsNotSystem)) = Len(SelectSeq(messages, IsNotSystem))
          /\ \A i \in 1..Len(SelectSeq(last'.got, IsNotSystem)) :
               LET g == SelectSeq(last'.got, IsNotSystem)[i]
                   m == SelectSeq(messages, IsNotSystem)[i]
               IN /\ g.id = m.id /\ g.role = m.role /\ g.content = m.content
                  /\ g.name = m.name /\ g.tool_call_id = m.tool_call_id
                  /\ g.tool_calls = m.tool_calls /\ g.metrics = m.metrics]_vars

\* what SQLBackend.get returns for a state of the database
GetReturns(store) ==
    IF store.exists
    THEN [found |-> TRUE, messages |-> CreateThreadFromRecord(store),
          meta |-> ThreadMetaFromRecord(store),
          created_at |-> store.created_at, updated_at |-> store.updated_at]
    ELSE [found |-> FALSE, messages |-> <<>>, meta |-> NoMeta,
          created_at |-> 0, updated_at |-> 0]

\* C24: save of the SQL backend writes the thread record only when every
\* attachment of the thread is stored and its file is in the file store;
\* a save that fails, in the attachment phase or in the database phase,
\* raises a RuntimeError and get returns what it returned before the call
C24_SaveAtomic ==
    [][(last'.op = "save" /\ last'.arg = "sql")
       => /\ (last'.result \/ sql_store' # sql_store)
              => \A k \in 1..Len(attachments') :
                   /\ attachments'[k].status = "stored"
                   /\ attachments'[k].file_id \in files'
          /\ ~last'.result
              => /\ last'.raised.type = "RuntimeError"
                 /\ GetReturns(sql_store') = GetReturns(sql_store)]_vars

\* C25: when save of the SQL backend fails in the attachment phase, none of
\* the files the call wrote is in the file store afterwards; when it fails
\* in the database phase, all of them are
C25_CleanupIffAttachmentPhase ==
    [][(last'.op = "save" /\ last'.arg = "sql" /\ ~last'.result)
       => LET failing == \E k \in 1..Len(attachments) :
                            attachments[k].status # "stored" /\ ~attachments[k].content
              wrote == {k \in 1..Len(attachments) :
                          /\ attachments[k].status # "stored" /\ attachments[k].content
                          /\ \A j \in 1..(k - 1) :
                               attachments[j].status = "stored" \/ attachments[j].content}
          IN IF failing THEN files' \cap wrote = {} ELSE wrote \subseteq files']_vars

\* the contents joined by blank lines
RECURSIVE JoinedByBlankLines(_)
JoinedByBlankLines(contents) ==
    IF contents = <<>> THEN <<>>
    ELSE IF Len(contents) = 1 THEN Text(contents[1])
    ELSE Text(contents[1]) \o <<"<newline><newline>">>
         \o JoinedByBlankLines(Tail(contents))

\* C26: what run_agent returns first is the contents of all assistant
\* messages agent.go returned, in order, joined by blank lines
C26_ResponseJoinsAssistantContents ==
    (runner.pc = "done" /\ runner.raised = "none"
     /\ SelectSeq(runner.new_messages, IsAssistant) # <<>>)
    => Text(runner.response) =
         JoinedByBlankLines([i \in 1..Len(SelectSeq(runner.new_messages, IsAssistant)) |->
                               SelectSeq(runner.new_messages, IsAssistant)[i].content])

\* run_agent has looked the agent up: an unregistered name raised
\* ValueError and no agent was invoked; a registered agent was invoked once
RunnerInvokesOnce ==
    IF runner.name \in Agents
    THEN runner.go_calls = 1 /\ runner.raised # "ValueError"
    ELSE runner.go_calls = 0 /\ runner.raised = "ValueError"

\* the thread of run_agent holds the task as its only message
OnlyTask ==
    /\ Len(runner.thread) = 1
    /\ runner.thread[1].role = "user" /\ runner.thread[1].content = runner.task
    /\ runner.thread[1].sequence = 1

\* the thread of run_agent holds the task and then the formatted context
TaskThenContext ==
    /\ Len(runner.thread) = 2
    /\ runner.thread[1].role = "user" /\ runner.thread[1].content = runner.task
    /\ runner.thread[1].sequence = 1
    /\ runner.thread[2].role = "user"
    /\ runner.thread[2].content = ContextStr(runner.context)
    /\ runner.thread[2].sequence = 2

DeltaIndexes(deltas) == {deltas[i].index : i \in 1..Len(deltas)}

\* the arguments of the deltas of an index, one after the other
RECURSIVE ArgumentsOf(_, _)
ArgumentsOf(deltas, index) ==
    IF deltas = <<>> THEN <<>>
    ELSE (IF deltas[1].index = index THEN Text(deltas[1].arguments) ELSE <<>>)
         \o ArgumentsOf(Tail(deltas), index)

\* C28: the tool_calls list _process_streaming_chunks has built holds one
\* entry for every index of the deltas that arrived: its id and its name
\* are those of the first delta of the index, its arguments the arguments
\* of all deltas of the index in arrival order
C28_OneEntryPerIndex ==
    LET deltas == ToolCallDeltas(stream.chunks)
    IN /\ Len(stream.tool_calls) = Cardinality(DeltaIndexes(deltas))
       /\ \A index \in DeltaIndexes(deltas) :
            \E k \in 1..Len(stream.tool_calls) :
               /\ stream.tool_calls[k].id = index + 1
               /\ stream.tool_calls[k].name = "test_tool"
               /\ stream.tool_calls[k].arguments = ArgumentsOf(deltas, index)

\* C29: the chat completion message of a tool message has the content of
\* the message and its tool_call_id, with stored attachments or without
C29_ToolContentUnchanged ==
    (projection.called /\ projection.message.role = "tool")
    => /\ projection.result.content = Text(projection.message.content)
       /\ projection.result.tool_call_id = projection.message.tool_call_id

\* the messages go has appended to the thread the caller handed to it,
\* after the system prompt was put at its head
AppendedByGo(t) ==
    SubSeq(thread[t], Len(EnsureSystemPrompt(FreshThread)) + 1, Len(thread[t]))

\* C30: the list go returns is the sequence of the messages the call has
\* appended to the thread, in the order they were appended, and holds no
\* user message
C30_ReturnsAppendedMessages ==
    \A t \in Turns :
        pc[t] = "returned"
        => /\ Returned(t) = AppendedByGo(t)
           /\ \A i \in 1..Len(Returned(t)) : Returned(t)[i].role # "user"

\* a go has returned an assistant message with tool calls, a tool message
\* and the messages that followed
C30_Witness ==
    \E t \in SerialTurns :
        /\ pc[t] = "returned"
        /\ Len(Returned(t)) >= 3
        /\ Returned(t)[1].role = "assistant" /\ Returned(t)[1].tool_calls # NoToolCalls
        /\ Returned(t)[2].role = "tool"
        /\ Returned(t)[Len(Returned(t))].role = "assistant"

\* C32: an LLM call that returns a response with content or with a tool
\* call appends one message to the thread, the assistant message that
\* carries the content and the tool calls; one that returns neither
\* appends nothing
C32_OneAssistantPerStep ==
    [][\A t \in Turns :
         (pc[t] = "step" /\ pc'[t] \notin {"step", "raised"} /\ last'.op = "step")
         => IF last'.got[1].content # "" \/ last'.got[1].tool_calls # <<>>
            THEN /\ Len(thread'[t]) = Len(thread[t]) + 1
                 /\ SubSeq(thread'[t], 1, Len(thread[t])) = thread[t]
                 /\ thread'[t][Len(thread'[t])].role = "assistant"
                 /\ thread'[t][Len(thread'[t])].content = last'.got[1].content
                 /\ thread'[t][Len(thread'[t])].tool_calls =
                      (IF last'.got[1].tool_calls # <<>>
                       THEN last'.got[1].tool_calls ELSE NoToolCalls)
            ELSE thread'[t] = thread[t]]_vars

\* an LLM call has returned tool calls without content and the thread ends
\* with the assistant message that carries them
C32_Witness ==
    /\ last.op = "step"
    /\ last.got[1].content = "" /\ last.got[1].tool_calls # <<>>
    /\ pc[1] = "tool"
    /\ thread[1][Len(thread[1])].role = "assistant"
    /\ thread[1][Len(thread[1])].tool_calls = last.got[1].tool_calls

\* the thread ends with a final answer, with the tool message of an
\* interrupt tool or with the cap message
EndsTurn(msgs) ==
    \/ Last(msgs).role = "assistant" /\ Last(msgs).tool_calls = NoToolCalls
    \/ IsInterruptMessage(Last(msgs))
    \/ IsCapMessage(Last(msgs))

\* C33 as stated: a turn that has returned has appended a message, and the
\* thread ends with a final answer, an interrupt or the cap message
C33_ReturnedTurnEnds ==
    \A t \in Turns :
        pc[t] = "returned" => new_messages[t] # <<>> /\ EndsTurn(thread[t])

\* C33: when a turn leaves its loop, the thread ends with a final answer,
\* with the tool message of an interrupt tool or with the cap message,
\* unless the LLM call it leaves on returned neither content nor tool
\* calls: that turn appends nothing for the response and returns
C33_TurnEndsUnlessEmptyResponse ==
    [][\A t \in Turns :
         (/\ pc[t] \notin {"save", "cap_save"}
          /\ pc'[t] \in {"save", "cap_save", "returned"}
          /\ pc'[t] # pc[t] \/ thread'[t] # thread[t])
         => IF last'.op = "step" /\ last'.got[1].content = ""
                                /\ last'.got[1].tool_calls = <<>>
            THEN thread'[t] = thread[t]
            ELSE EndsTurn(thread'[t])]_vars

\* a turn has returned on an interrupt after an earlier round of tools
C33_Witness ==
    /\ pc[1] = "returned"
    /\ IsInterruptMessage(Last(thread[1]))
    /\ Len(new_messages[1]) >= 4

\* C34: with a thread store, when go has returned the store has saved the
\* thread after the last message of the turn was appended: what it saved
\* last is the thread, and it holds every message of new_messages
C34_SavedAfterLastMessage ==
    \A t \in Turns :
        (thread_store /\ pc[t] = "returned")
        => /\ saved[t] = thread[t]
           /\ \A i \in 1..Len(new_messages[t]) :
                \E j \in 1..Len(saved[t]) : saved[t][j] = new_messages[t][i]

\* a go that found the cap reached on entry has saved and returned
C34_Witness ==
    /\ thread_store /\ pc[1] = "returned"
    /\ Len(new_messages[1]) = 1 /\ IsCapMessage(new_messages[1][1])
    /\ saved[1] = thread[1]

\* the iterations of the turn that ended in tool dispatch: the rounds of
\* tool calls, but for a round that an interrupt ended
DispatchedIterations(t) ==
    Count(new_messages[t], IsAssistantWithCalls)
    - (IF new_messages[t] # <<>> /\ IsInterruptMessage(Last(new_messages[t]))
       THEN 1 ELSE 0)

\* C37: a turn that has returned, while no other turn of the agent was in
\* progress, holds the cap message at most once and only as its last
\* message, and holds it if and only if it performed max_tool_iterations
\* iterations that each ended in tool dispatch
C37_CapIffAllIterationsDispatched ==
    \A t \in SerialTurns :
        pc[t] = "returned"
        => /\ Count(new_messages[t], IsCapMessage) <= 1
           /\ Count(new_messages[t], IsCapMessage) = 1
               => IsCapMessage(Last(new_messages[t]))
           /\ Count(new_messages[t], IsCapMessage) = 1
               <=> DispatchedIterations(t) = max_tool_iterations

\* C39: for the in-memory backend, a message added to the thread object
\* after a save is not visible through get: an add_message does not change
\* what get returns
C39_MemoryGetReturnsSavedState ==
    [][(last'.op = "add_message" /\ mem_store)
       => MemoryReturns' = MemoryReturns]_vars

\* C35: a file store configured with a total-capacity cap M, any
\* non-negative integer, never holds more than M bytes
C35_TotalSizeWithinCap ==
    file_store.max_storage_size # None
        => GetStorageSize <= file_store.max_storage_size

\* C36: a FileStore.save that raises FileTooLargeError,
\* UnsupportedFileTypeError or StorageFullError creates no file:
\* list_files() and get_storage_size() return what they returned before
C36_FailedSaveWritesNothing ==
    [][(/\ last'.op = "save" /\ last'.arg = "file"
        /\ last'.raised.type \in {"FileTooLargeError",
                                   "UnsupportedFileTypeError",
                                   "StorageFullError"})
       => files' = files /\ GetStorageSize' = GetStorageSize]_vars

\* a save was refused for the capacity by a store that holds a file
C36_Witness ==
    /\ last.op = "save" /\ last.arg = "file"
    /\ last.raised.type = "StorageFullError"
    /\ files # {}

\* C40: once SQLBackend.save and cleanup_orphaned_files have finished, every
\* file a committed message references is in the file store
C40_CommittedFilesKept ==
    saving = NoSave => sql_store.file_ids \subseteq files

\* C38: the messages of a thread have pairwise distinct ids, also when two
\* of them have the same role and content
C38_DistinctMessageIds ==
    \A i, j \in 1..Len(messages) : i # j => messages[i].id # messages[j].id

\* the id of the last user message of the thread
LastUserId(msgs) ==
    msgs[CHOOSE i \in 1..Len(msgs) :
            /\ msgs[i].role = "user"
            /\ \A j \in (i + 1)..Len(msgs) : msgs[j].role # "user"].id

\* C31: a go that is not stopped by the cap on entry leaves every
\* attachment of the last user message processed, those that hold no bytes
\* with an error record that starts with "Failed to process file: ", and
\* goes on to the LLM call
C31_AttachmentFailuresIsolated ==
    [][(last'.op = "go" /\ ~CapOnEntry(iteration_count))
       => /\ \A k \in 1..Len(attachments') :
                attachments'[k].message = LastUserId(messages')
                => /\ attachments'[k].processed_content # <<>>
                   /\ ~attachments'[k].content
                      => attachments'[k].processed_content[1]
                             = "Failed to process file: "
          /\ last'.result]_vars
====
